---- MODULE Spec2Model ----
(***************************************************************************)
(* Model of mensural_to_mei's stream transducer                            *)
(* (convert_detections/convert_to_mei_and_humdrum.py).                     *)
(*                                                                         *)
(* One behaviour is one call of convert_to_mei_and_humdrum on one piece    *)
(* stream.  A step is one pass through a part of the function body: the    *)
(* head of the staff loop, one iteration of the symbol loop, the tail of   *)
(* the staff loop, and the code after the loops.  Python strings that the  *)
(* code slices or extends (lines of the flat encoding, file names) are     *)
(* sequences of one-character strings; an uncaught Python exception ends   *)
(* the run in pc = "error" with the exception's name in err.               *)
(***************************************************************************)
EXTENDS Integers, Sequences, FiniteSets, TLC

VARIABLES
  symbols_and_pitches, \* argument: <<label, staves>> entries, in dict order
  humdrum,             \* argument: the alternate encoding is requested
  stafflist,           \* combined list of staves (line 198)
  metadata,            \* label of each staff (line 198), metadata[i+1] is Python's metadata[i]
  id_counter,          \* module global (line 61)
  used_filenames,      \* module global (line 64)
  pc,                  \* "staff", "symbol", "finish", "done", "error"
  err,                 \* name of the uncaught exception, "" when none
  ix_staff,            \* 0-based, as in the source
  ix_symbol,           \* 0-based, as in the source
  saved,
  first_staff,
  filename,
  filename_counter,
  humdrum_string,      \* list of lines of the flat encoding
  docs,                \* every mei tree built so far; the last one is the local mei
  initial_clef,        \* <<>> while unbound, else <<token>>
  initial_flat_found,
  initial_key,         \* <<>> while unbound, else <<"">> or <<"flat">>
  clef,                \* <<>> while unbound, else <<token>>
  sharp_found,
  flat_found,
  ligature,
  mensur,              \* <<>> while unbound, else <<[doc, pos]>>: the element docs[doc].layer[pos]
  xml_lig,             \* <<>> while unbound, else <<[doc, pos]>>
  humdrum_line,        \* <<>> while unbound, else <<line>>
  line_humdrum,        \* <<>> while unbound, else <<line>>
  mei_output,          \* writes into mei_output/, in order: [name, doc, by]; by is history,
                       \* "bar" for the call of line 396 and "end" for the call of line 445
  humdrum_output,      \* writes into humdrum_output/, in order: [name, lines, by]
  returned             \* history: the calls that ended earlier in this process, in order:
                       \* [piece, humdrum, err, mei_names, humdrum_names]

vars == <<symbols_and_pitches, humdrum, stafflist, metadata, id_counter,
          used_filenames, pc, err, ix_staff, ix_symbol, saved, first_staff,
          filename, filename_counter, humdrum_string, docs, initial_clef,
          initial_flat_found, initial_key, clef, sharp_found, flat_found,
          ligature, mensur, xml_lig, humdrum_line, line_humdrum, mei_output,
          humdrum_output, returned>>

(***************************************************************************)
(* Bounds of the model.                                                    *)
(***************************************************************************)
\* longest run of tokens after the clef in the one-staff pieces
MaxBody == 3

\* largest number of staves in the pieces assembled from staff shapes
MaxStaves == 3

\* largest number of calls of convert_to_mei_and_humdrum in one process
MaxCalls == 2

\* largest number of calls that ended before the behaviours of a long-running
\* process start
EarlierCalls == 999

(***************************************************************************)
(* Strings.                                                                *)
(***************************************************************************)
Last(s) == s[Len(s)]

\* s[:-n]
DropLast(s, n) == SubSeq(s, 1, Len(s) - n)

\* sub in line
Contains(line, sub) ==
  \E i \in 1..(Len(line) - Len(sub) + 1) : SubSeq(line, i, i + Len(sub) - 1) = sub

Digits == <<"0", "1", "2", "3", "4", "5", "6", "7", "8", "9">>

RECURSIVE Str(_)
\* str(n) for a natural number
Str(n) == IF n < 10 THEN <<Digits[n + 1]>> ELSE Str(n \div 10) \o <<Digits[(n % 10) + 1]>>

\* s.zfill(2)
Zfill2(s) == IF Len(s) < 2 THEN <<"0">> \o s ELSE s

\* pname.upper()
Upper(p) ==
  CASE p = "c" -> "C" [] p = "d" -> "D" [] p = "e" -> "E" [] p = "f" -> "F"
    [] p = "g" -> "G" [] p = "a" -> "A" [] p = "b" -> "B" [] OTHER -> p

(***************************************************************************)
(* Lexicon tables (lines 139-195).                                         *)
(***************************************************************************)
RESTS_MEI ==
  [t \in {"r-lo", "r-br", "r-sb", "r-mi", "r-sm", "r-fu", "r-se"} |->
     CASE t = "r-lo" -> "longa" [] t = "r-br" -> "brevis" [] t = "r-sb" -> "semibrevis"
       [] t = "r-mi" -> "minima" [] t = "r-sm" -> "semiminima" [] t = "r-fu" -> "fusa"
       [] t = "r-se" -> "semifusa"]

NOTES_MEI ==
  [t \in {"ma", "lo", "bre", "sebre", "mi", "sm", "fu", "sf", "br", "sb", "li"} |->
     CASE t = "ma" -> "maxima" [] t = "lo" -> "longa" [] t = "bre" -> "brevis"
       [] t = "sebre" -> "semibrevis" [] t = "mi" -> "minima" [] t = "sm" -> "semiminima"
       [] t = "fu" -> "fusa" [] t = "sf" -> "semifusa" [] t = "br" -> "brevis"
       [] t = "sb" -> "semibrevis" [] t = "li" -> "semibrevis"]

NOTES_HUMDRUM ==
  [t \in {"ma", "lo", "bre", "sebre", "mi", "sm", "fu", "sf", "br", "sb", "li"} |->
     CASE t = "ma" -> <<"X">> [] t = "lo" -> <<"L">> [] t = "bre" -> <<"S">>
       [] t = "sebre" -> <<"s">> [] t = "mi" -> <<"M">> [] t = "sm" -> <<"m">>
       [] t = "fu" -> <<"U">> [] t = "sf" -> <<"u">> [] t = "br" -> <<"S", "~">>
       [] t = "sb" -> <<"s", "~">> [] t = "li" -> <<"[", "s">>]

RESTS_HUMDRUM ==
  [t \in {"r-lo", "r-br", "r-sb", "r-mi", "r-sm", "r-fu", "r-se"} |->
     CASE t = "r-lo" -> <<"L", "r">> [] t = "r-br" -> <<"S", "r">> [] t = "r-sb" -> <<"s", "r">>
       [] t = "r-mi" -> <<"M", "r">> [] t = "r-sm" -> <<"m", "r">> [] t = "r-fu" -> <<"U", "r">>
       [] t = "r-se" -> <<"u", "r">>]

CLEFS_HUMDRUM ==
  [p \in {"c-c-g", "c-c-e", "c-c-b", "c-c-d", "c-g", "c-f-b", "c-f"} |->
     <<"*", "c", "l", "e", "f">> \o
     (CASE p = "c-c-g" -> <<"C", "2">> [] p = "c-c-e" -> <<"C", "1">>
        [] p = "c-c-b" -> <<"C", "3">> [] p = "c-c-d" -> <<"C", "4">>
        [] p = "c-g" -> <<"G", "2">> [] p = "c-f-b" -> <<"F", "3">>
        [] p = "c-f" -> <<"F", "4">>)]

\* fixed lines of the flat encoding
LineMens == <<"*", "*", "m", "e", "n", "s">>
LineKeyFlat == <<"*", "k", "[", "b", "-", "]">>
LineDoubleBar == <<"=", "|", "|">>
LineTerminator == <<"*", "-">>
LineCustos == <<"*", "c", "u", "s", "t", "o", "s">>
LineLayoutBreak == <<"!", "!", "L", "O", ":", "L", "B", ":", "g", "=", "z">>
LineInvisibleBar == <<"=", "-">>
WordCustos == <<"c", "u", "s", "t", "o", "s">>
ExtMei == <<".", "m", "e", "i">>
ExtMens == <<".", "m", "e", "n", "s">>

(***************************************************************************)
(* analyse_clef (lines 616-660): <<shape, line>>, or <<>> where the chain  *)
(* of comparisons binds neither name (UnboundLocalError at the return).    *)
(***************************************************************************)
analyse_clef(c) ==
  LET p == c.pitch IN
  CASE p = "c-g" -> <<"G", "2">>
    [] p = "c-c-e" -> <<"C", "1">>
    [] p = "c-c-g" -> <<"C", "2">>
    [] p = "c-c-b" -> <<"C", "3">>
    [] p = "c-c-d" -> <<"C", "4">>
    [] p = "c-f-b" -> <<"F", "3">>
    [] p = "c-f" -> <<"F", "4">>
    [] OTHER -> <<>>

(***************************************************************************)
(* analyse_mensuration (lines 663-693): <<sign, slash>>, or <<>> for a     *)
(* code outside the three compared ones (UnboundLocalError).               *)
(***************************************************************************)
analyse_mensuration(symbol) ==
  LET p == symbol.pitch IN
  CASE p = "met_c" -> <<"C", "">>
    [] p = "al-br" -> <<"C", "1">>
    [] p = "met_o_cut" -> <<"O", "1">>
    [] OTHER -> <<>>

(***************************************************************************)
(* analyse_note (lines 696-771).                                           *)
(***************************************************************************)
StepCodes == <<"c0", "d0", "e0", "f0", "g0", "a0", "b0",
               "c1", "d1", "e1", "f1", "g1", "a1", "b1",
               "c2", "d2", "e2", "f2", "g2", "a2", "b2">>

MENSURAL_NOTE_STEPS ==
  [p \in {StepCodes[i] : i \in 1..Len(StepCodes)} |->
     CHOOSE n \in 0..(Len(StepCodes) - 1) : StepCodes[n + 1] = p]

\* the table of lines 726-731, keys -14..13 in order
RelativeNames == <<"c", "d", "e", "f", "g", "a", "b",
                   "c", "d", "e", "f", "g", "a", "b",
                   "c", "d", "e", "f", "g", "a", "b",
                   "c", "d", "e", "f", "g", "a", "b">>

RELATIVE_NOTE_STEPS == [r \in -14..13 |-> RelativeNames[r + 15]]

\* the clef line chosen at lines 737-750; <<>> when no comparison matches
ClefLine(c) ==
  CASE c = "c-c-g" -> <<MENSURAL_NOTE_STEPS["g1"]>>
    [] c = "c-c-e" -> <<MENSURAL_NOTE_STEPS["e1"]>>
    [] c = "c-c-b" -> <<MENSURAL_NOTE_STEPS["b1"]>>
    [] c = "c-c-d" -> <<MENSURAL_NOTE_STEPS["d2"]>>
    [] c = "c-g" -> <<MENSURAL_NOTE_STEPS["c1"]>>
    [] c = "c-f-b" -> <<MENSURAL_NOTE_STEPS["f2"]>>
    [] c = "c-f" -> <<MENSURAL_NOTE_STEPS["a2"]>>
    [] OTHER -> <<>>

\* NoteBranch with the first range closed at 0
NoteBranchClosedAtZero(rel_pitch) ==
  IF -7 <= rel_pitch /\ rel_pitch <= 0 THEN [octave |-> 3, key |-> 7 + rel_pitch]
  ELSE IF rel_pitch > 6 THEN [octave |-> 5, key |-> rel_pitch]
  ELSE IF -14 <= rel_pitch /\ rel_pitch < -7 THEN [octave |-> 2, key |-> 7 + rel_pitch]
  ELSE [octave |-> 4, key |-> rel_pitch]

\* the branch of lines 759-769 taken for rel_pitch: the octave and the key looked up
NoteBranch(rel_pitch) ==
  IF -7 <= rel_pitch /\ rel_pitch < 0 THEN [octave |-> 3, key |-> 7 + rel_pitch]
  ELSE IF rel_pitch > 6 THEN [octave |-> 5, key |-> rel_pitch]
  ELSE IF -14 <= rel_pitch /\ rel_pitch < -7 THEN [octave |-> 2, key |-> 7 + rel_pitch]
  ELSE [octave |-> 4, key |-> rel_pitch]

\* [err, oct, pname]: err is "" and oct, pname the returned pair, or err names the exception
analyse_note(c, pitch) ==
  IF pitch \notin DOMAIN MENSURAL_NOTE_STEPS
  THEN [err |-> "KeyError", oct |-> 0, pname |-> ""]
  ELSE IF ClefLine(c.pitch) = <<>>
  THEN [err |-> "UnboundLocalError", oct |-> 0, pname |-> ""]
  ELSE LET rel_pitch == MENSURAL_NOTE_STEPS[pitch] - ClefLine(c.pitch)[1]
           b == NoteBranch(rel_pitch)
       IN IF b.key \notin DOMAIN RELATIVE_NOTE_STEPS
          THEN [err |-> "KeyError", oct |-> 0, pname |-> ""]
          ELSE [err |-> "", oct |-> b.octave, pname |-> RELATIVE_NOTE_STEPS[b.key]]

(***************************************************************************)
(* get_humdrum_pitch (lines 450-461).                                      *)
(***************************************************************************)
\* get_humdrum_pitch with the letter case of octaves 3 and 4 exchanged
get_humdrum_pitch_case_swapped(oct, pname, line) ==
  IF oct = 2 THEN line \o <<Upper(pname), Upper(pname)>>
  ELSE IF oct = 3 THEN line \o <<pname>>
  ELSE IF oct = 4 THEN line \o <<Upper(pname)>>
  ELSE IF oct = 5 THEN line \o <<pname, pname>>
  ELSE line

get_humdrum_pitch(oct, pname, line) ==
  IF oct = 2 THEN line \o <<Upper(pname), Upper(pname)>>
  ELSE IF oct = 3 THEN line \o <<Upper(pname)>>
  ELSE IF oct = 4 THEN line \o <<pname>>
  ELSE IF oct = 5 THEN line \o <<pname, pname>>
  ELSE line

(***************************************************************************)
(* Elements of the mei tree.  attrs is the set of <<name, value>> pairs    *)
(* other than xml:id; id is <<prefix, n>> for the value f'prefix-{ids[n]}' *)
(* (ids holds distinct strings, so n stands for ids[n]) and <<>> while no  *)
(* xml:id is set.  src is history: the <<ix_staff, ix_symbol>> of the      *)
(* token whose handler created the element (<<>> for the declarations).    *)
(***************************************************************************)
\* len(ids), the argument of generate_random_numbers (line 132)
PoolSize == 10000

Elem(tag, prefix, n, attrs, src) ==
  [tag |-> tag, id |-> <<prefix, n>>, attrs |-> attrs, children |-> <<>>, src |-> src]

\* element.set(k, v)
SetAttr(attrs, k, v) == {p \in attrs : p[1] # k} \cup {<<k, v>>}

HasAttr(e, k) == \E p \in e.attrs : p[1] = k

Attr(e, k) == (CHOOSE p \in e.attrs : p[1] = k)[2]

\* str(oct)
OctStr(oct) == Digits[oct + 1]

(***************************************************************************)
(* create_mei_declarations (lines 526-582) called with id_counter = base:  *)
(* the tree below <mei>, with clef and keySig still without attributes.    *)
(***************************************************************************)
\* create_mei_declarations taking its identifiers from the start of ids at every call
create_mei_declarations_from_ids_start(base) ==
  [scaffold |->
     << Elem("mdiv", "mdiv", 0 + 1, {}, <<>>),
        Elem("score", "score", 0 + 2, {}, <<>>),
        Elem("scoreDef", "scoreDef", 0 + 3, {}, <<>>),
        Elem("staffGrp", "staffGrp", 0 + 4, {}, <<>>),
        Elem("staffDef", "staffDef", 0 + 5,
             {<<"n", "1">>, <<"notationtype", "mensural.white">>, <<"lines", "5">>}, <<>>),
        Elem("section", "section", 0 + 6, {}, <<>>),
        Elem("staff", "staff", 0 + 7, {<<"n", "1">>}, <<>>),
        Elem("layer", "layer", 0 + 8, {<<"n", "1">>}, <<>>) >>,
   clef |-> [tag |-> "clef", id |-> <<>>, attrs |-> {}, children |-> <<>>, src |-> <<>>],
   keySig |-> [tag |-> "keySig", id |-> <<>>, attrs |-> {}, children |-> <<>>, src |-> <<>>],
   layer |-> <<>>]

create_mei_declarations(base) ==
  [scaffold |->
     << Elem("mdiv", "mdiv", base + 1, {}, <<>>),
        Elem("score", "score", base + 2, {}, <<>>),
        Elem("scoreDef", "scoreDef", base + 3, {}, <<>>),
        Elem("staffGrp", "staffGrp", base + 4, {}, <<>>),
        Elem("staffDef", "staffDef", base + 5,
             {<<"n", "1">>, <<"notationtype", "mensural.white">>, <<"lines", "5">>}, <<>>),
        Elem("section", "section", base + 6, {}, <<>>),
        Elem("staff", "staff", base + 7, {<<"n", "1">>}, <<>>),
        Elem("layer", "layer", base + 8, {<<"n", "1">>}, <<>>) >>,
   clef |-> [tag |-> "clef", id |-> <<>>, attrs |-> {}, children |-> <<>>, src |-> <<>>],
   keySig |-> [tag |-> "keySig", id |-> <<>>, attrs |-> {}, children |-> <<>>, src |-> <<>>],
   layer |-> <<>>]

\* number of identifiers create_mei_declarations takes
DeclIds == Len(create_mei_declarations(0).scaffold)

(***************************************************************************)
(* convert_to_combined_list_with_metadata (utils.py lines 173-184).        *)
(***************************************************************************)
RECURSIVE convert_to_combined_list_with_metadata(_)
convert_to_combined_list_with_metadata(d) ==
  IF d = <<>> THEN [list |-> <<>>, meta |-> <<>>]
  ELSE LET rest == convert_to_combined_list_with_metadata(Tail(d))
           k == Head(d)[1]
           v == Head(d)[2]
       IN [list |-> v \o rest.list,
           meta |-> [i \in 1..Len(v) |-> k] \o rest.meta]

(***************************************************************************)
(* save_mei_file (lines 463-523): the names written, the returned pair     *)
(* and the new value of the global used_filenames.                         *)
(***************************************************************************)
save_mei_file(md, fcounter, ixs, fname, sl, used) ==
  LET fresh == \A i \in 1..Len(used) : used[i] # fname
      counter == IF fresh THEN 1 ELSE fcounter + 1
      save_name == IF fresh
                   THEN md[ixs + 1] \o <<"_", "0", "1">> \o ExtMei
                   ELSE fname \o <<"_">> \o Zfill2(Str(counter)) \o ExtMei
  IN [save_name |-> save_name,
      mens_name |-> DropLast(save_name, 3) \o ExtMens,
      filename |-> IF ixs # Len(sl) - 1 THEN md[ixs + 2] ELSE fname,
      filename_counter |-> counter,
      used_filenames |-> IF fresh THEN Append(used, fname) ELSE used]

(***************************************************************************)
(* Helpers of the actions.                                                 *)
(***************************************************************************)
\* the local mei
CurDoc == Len(docs)

\* ids[id_counter + k] exists
IdOK(k) == id_counter + k < PoolSize

\* value of id_counter when ids[increment_idcounter()] raises IndexError
IdFailAt == IF id_counter + 1 >= PoolSize THEN id_counter + 1 ELSE PoolSize

\* an uncaught exception ends the call; the globals keep what was done before it
Raise(kind, idc) ==
  /\ pc' = "error"
  /\ err' = kind
  /\ id_counter' = idc
  /\ UNCHANGED <<returned, symbols_and_pitches, humdrum, stafflist, metadata, used_filenames,
                 ix_staff, ix_symbol, saved, first_staff, filename, filename_counter,
                 humdrum_string, docs, initial_clef, initial_flat_found, initial_key,
                 clef, sharp_found, flat_found, ligature, mensur, xml_lig,
                 humdrum_line, line_humdrum, mei_output, humdrum_output>>

\* lines 430-435 with humdrum_line = <<hl>>
Emit(hs, hl) ==
  IF Contains(hl, WordCustos)
  THEN hs \o <<hl, LineLayoutBreak, LineInvisibleBar>>
  ELSE Append(hs, hl)

(***************************************************************************)
(* Lines 219-233: the clef and flat found for a first staff.  clef is <<>> *)
(* when neither branch assigns initial_clef.                               *)
(***************************************************************************)
ScanRange == 2..(Len(stafflist) - 1)   \* range(1, len(stafflist)-1), 1-based

\* ResolveClef falling back on clef c-c-g when neither branch assigns initial_clef
ResolveClefWithDefault ==
  LET staff == stafflist[ix_staff + 1] IN
  IF Len(staff) = 0 THEN [err |-> "IndexError", clef |-> <<>>, flat |-> FALSE]
  ELSE IF staff[1].type = "clef"
  THEN IF Len(staff) < 2 THEN [err |-> "IndexError", clef |-> <<>>, flat |-> FALSE]
       ELSE [err |-> "", clef |-> <<staff[1]>>, flat |-> staff[2].type = "flat"]
  ELSE LET stop == {i \in ScanRange : Len(stafflist[i]) = 0 \/ stafflist[i][1].type = "clef"} IN
       IF stop = {}
       THEN [err |-> "",
             clef |-> IF initial_clef = <<>> THEN <<[type |-> "clef", pitch |-> "c-c-g"]>>
                      ELSE initial_clef,
             flat |-> FALSE]
       ELSE LET i == CHOOSE j \in stop : \A k \in stop : j <= k IN
            IF Len(stafflist[i]) < 2 THEN [err |-> "IndexError", clef |-> <<>>, flat |-> FALSE]
            ELSE [err |-> "", clef |-> <<stafflist[i][1]>>,
                  flat |-> stafflist[i][2].type = "flat"]

ResolveClef ==
  LET staff == stafflist[ix_staff + 1] IN
  IF Len(staff) = 0 THEN [err |-> "IndexError", clef |-> <<>>, flat |-> FALSE]
  ELSE IF staff[1].type = "clef"
  THEN IF Len(staff) < 2 THEN [err |-> "IndexError", clef |-> <<>>, flat |-> FALSE]
       ELSE [err |-> "", clef |-> <<staff[1]>>, flat |-> staff[2].type = "flat"]
  ELSE LET stop == {i \in ScanRange : Len(stafflist[i]) = 0 \/ stafflist[i][1].type = "clef"} IN
       IF stop = {} THEN [err |-> "", clef |-> initial_clef, flat |-> FALSE]
       ELSE LET i == CHOOSE j \in stop : \A k \in stop : j <= k IN
            IF Len(stafflist[i]) < 2 THEN [err |-> "IndexError", clef |-> <<>>, flat |-> FALSE]
            ELSE [err |-> "", clef |-> <<stafflist[i][1]>>,
                  flat |-> stafflist[i][2].type = "flat"]

(***************************************************************************)
(* Head of the staff loop, lines 203-262.                                  *)
(***************************************************************************)
StaffStart ==
  /\ pc = "staff"
  /\ LET n0 == IF ix_staff = 0 THEN DeclIds ELSE 0
         fs == IF ix_staff = 0 THEN TRUE ELSE first_staff
         docs0 == IF ix_staff = 0 THEN <<create_mei_declarations(id_counter)>> ELSE docs
         r == ResolveClef
         sl == analyse_clef(r.clef[1])
         nk == IF r.flat THEN 1 ELSE 0
         xml_clef == [docs0[Len(docs0)].clef EXCEPT
                        !.id = <<"clef", id_counter + n0 + 1>>,
                        !.attrs = {<<"shape", sl[1]>>, <<"line", sl[2]>>}]
         xml_keySign == [docs0[Len(docs0)].keySig EXCEPT
                        !.id = <<"keySig", id_counter + n0 + 2>>,
                        !.attrs = {<<"sig", "1f">>}]
     IN
     IF n0 > 0 /\ ~IdOK(n0) THEN Raise("IndexError", IdFailAt)
     ELSE IF fs /\ r.err # "" THEN Raise(r.err, id_counter + n0)
     ELSE IF fs /\ r.clef = <<>> THEN Raise("UnboundLocalError", id_counter + n0)
     ELSE IF fs /\ sl = <<>> THEN Raise("UnboundLocalError", id_counter + n0)
     ELSE IF fs /\ ~IdOK(n0 + 1 + nk) THEN Raise("IndexError", IdFailAt)
     ELSE
       /\ saved' = FALSE
       /\ first_staff' = FALSE
       /\ filename' = IF ix_staff = 0 THEN metadata[1] ELSE filename
       /\ IF fs
          THEN /\ initial_clef' = r.clef
               /\ initial_flat_found' = r.flat
               /\ clef' = r.clef
               /\ initial_key' = <<IF r.flat THEN "flat" ELSE "">>
               /\ docs' = [docs0 EXCEPT
                             ![Len(docs0)].clef = xml_clef,
                             ![Len(docs0)].keySig = IF r.flat THEN xml_keySign ELSE @]
               /\ humdrum_string' =
                    IF humdrum
                    THEN humdrum_string \o <<CLEFS_HUMDRUM[r.clef[1].pitch]>>
                           \o (IF r.flat THEN <<LineKeyFlat>> ELSE <<>>)
                    ELSE humdrum_string
               /\ id_counter' = id_counter + n0 + 1 + nk
          ELSE /\ UNCHANGED <<initial_clef, initial_flat_found, clef, initial_key,
                              humdrum_string>>
               /\ docs' = docs0
               /\ id_counter' = id_counter + n0
       /\ sharp_found' = FALSE
       /\ flat_found' = FALSE
       /\ ligature' = FALSE
       /\ ix_symbol' = 0
       /\ pc' = "symbol"
       /\ UNCHANGED <<returned, symbols_and_pitches, humdrum, stafflist, metadata, used_filenames,
                      err, ix_staff, filename_counter, mensur, xml_lig, humdrum_line,
                      line_humdrum, mei_output, humdrum_output>>

(***************************************************************************)
(* The symbol loop, lines 263-435: one action per branch of its body.      *)
(***************************************************************************)
Staff == stafflist[ix_staff + 1]

Symbol == Staff[ix_symbol + 1]

AtSymbol == pc = "symbol" /\ ix_symbol < Len(Staff)

\* line 265
IsInitialClef == <<Symbol>> = initial_clef

\* lines 269-274
IsInitialKey ==
  /\ <<Symbol.type>> = initial_key
  /\ \/ ix_symbol = 1
     \/ ix_symbol = 2 /\ clef[1].pitch = "c-c-g"

\* the symbol reaches line 276
Dispatched == AtSymbol /\ ~IsInitialClef /\ ~IsInitialKey

\* here of the element appended next to the current layer
NextPos == Len(docs[CurDoc].layer) + 1

Here == <<ix_staff, ix_symbol>>

AppendToLayer(e) == [docs EXCEPT ![CurDoc].layer = Append(@, e)]

\* lines 265-267
SkipInitialClef ==
  /\ AtSymbol
  /\ IsInitialClef
  /\ clef' = initial_clef
  /\ ix_symbol' = ix_symbol + 1
  /\ UNCHANGED <<returned, symbols_and_pitches, humdrum, stafflist, metadata, id_counter,
                 used_filenames, pc, err, ix_staff, saved, first_staff, filename,
                 filename_counter, humdrum_string, docs, initial_clef,
                 initial_flat_found, initial_key, sharp_found, flat_found, ligature,
                 mensur, xml_lig, humdrum_line, line_humdrum, mei_output, humdrum_output>>

\* lines 269-274
SkipInitialKey ==
  /\ AtSymbol
  /\ ~IsInitialClef
  /\ IsInitialKey
  /\ ix_symbol' = ix_symbol + 1
  /\ UNCHANGED <<returned, symbols_and_pitches, humdrum, stafflist, metadata, id_counter,
                 used_filenames, pc, err, ix_staff, saved, first_staff, filename,
                 filename_counter, humdrum_string, docs, initial_clef,
                 initial_flat_found, initial_key, clef, sharp_found, flat_found,
                 ligature, mensur, xml_lig, humdrum_line, line_humdrum, mei_output,
                 humdrum_output>>

\* lines 276-278
FlatToken ==
  /\ Dispatched
  /\ Symbol.type = "flat"
  /\ flat_found' = TRUE
  /\ ix_symbol' = ix_symbol + 1
  /\ UNCHANGED <<returned, symbols_and_pitches, humdrum, stafflist, metadata, id_counter,
                 used_filenames, pc, err, ix_staff, saved, first_staff, filename,
                 filename_counter, humdrum_string, docs, initial_clef,
                 initial_flat_found, initial_key, clef, sharp_found, ligature,
                 mensur, xml_lig, humdrum_line, line_humdrum, mei_output, humdrum_output>>

\* lines 280-282
SharpToken ==
  /\ Dispatched
  /\ Symbol.type = "sharp"
  /\ sharp_found' = TRUE
  /\ ix_symbol' = ix_symbol + 1
  /\ UNCHANGED <<returned, symbols_and_pitches, humdrum, stafflist, metadata, id_counter,
                 used_filenames, pc, err, ix_staff, saved, first_staff, filename,
                 filename_counter, humdrum_string, docs, initial_clef,
                 initial_flat_found, initial_key, clef, flat_found, ligature,
                 mensur, xml_lig, humdrum_line, line_humdrum, mei_output, humdrum_output>>

\* lines 285-291: the proportion modifier
ProportionToken ==
  /\ Dispatched
  /\ Symbol.type = "mens"
  /\ Symbol.pitch = "met_3_2"
  /\ IF mensur = <<>> THEN Raise("UnboundLocalError", id_counter)
     ELSE
       /\ docs' = [docs EXCEPT ![mensur[1].doc].layer[mensur[1].pos].attrs =
                                  SetAttr(SetAttr(@, "num", "3"), "numbase", "2")]
       /\ humdrum_string' =
            IF humdrum
            THEN [humdrum_string EXCEPT ![Len(humdrum_string)] =
                    DropLast(@, 1) \o <<"3", "/", "2", ")">>]
            ELSE humdrum_string
       /\ ix_symbol' = ix_symbol + 1
       /\ UNCHANGED <<returned, symbols_and_pitches, humdrum, stafflist, metadata, id_counter,
                      used_filenames, pc, err, ix_staff, saved, first_staff, filename,
                      filename_counter, initial_clef, initial_flat_found, initial_key,
                      clef, sharp_found, flat_found, ligature, mensur, xml_lig,
                      humdrum_line, line_humdrum, mei_output, humdrum_output>>

\* lines 293-308 and 430-435
MensurationToken ==
  /\ Dispatched
  /\ Symbol.type = "mens"
  /\ Symbol.pitch # "met_3_2"
  /\ LET ss == analyse_mensuration(Symbol)
         sign == ss[1]
         slash == ss[2]
         e == Elem("mensur", "mens", id_counter + 1,
                   {<<"prolatio", "2">>, <<"sign", sign>>}
                     \cup (IF slash # "" THEN {<<"slash", slash>>} ELSE {}), Here)
         hl == <<"*", "m", "e", "t", "(", sign>>
                 \o (IF slash # "" THEN <<"|">> ELSE <<>>) \o <<")">>
     IN
     IF ~IdOK(1) THEN Raise("IndexError", IdFailAt)
     ELSE IF ss = <<>> THEN Raise("UnboundLocalError", id_counter + 1)
     ELSE
       /\ id_counter' = id_counter + 1
       /\ docs' = AppendToLayer(e)
       /\ mensur' = <<[doc |-> CurDoc, pos |-> NextPos]>>
       /\ humdrum_line' = IF humdrum THEN <<hl>> ELSE humdrum_line
       /\ humdrum_string' = IF humdrum THEN Emit(humdrum_string, hl) ELSE humdrum_string
       /\ ix_symbol' = ix_symbol + 1
       /\ UNCHANGED <<returned, symbols_and_pitches, humdrum, stafflist, metadata, used_filenames,
                      pc, err, ix_staff, saved, first_staff, filename, filename_counter,
                      initial_clef, initial_flat_found, initial_key, clef, sharp_found,
                      flat_found, ligature, xml_lig, line_humdrum, mei_output,
                      humdrum_output>>

\* lines 310-317
DotToken ==
  /\ Dispatched
  /\ Symbol.type = "dot"
  /\ IF ~IdOK(1) THEN Raise("IndexError", IdFailAt)
     ELSE
       /\ id_counter' = id_counter + 1
       /\ docs' = AppendToLayer(Elem("dot", "dot", id_counter + 1, {}, Here))
       /\ humdrum_string' =
            IF humdrum
            THEN [humdrum_string EXCEPT ![Len(humdrum_string)] =
                    <<Head(@)>> \o <<":">> \o Tail(@)]
            ELSE humdrum_string
       /\ ix_symbol' = ix_symbol + 1
       /\ UNCHANGED <<returned, symbols_and_pitches, humdrum, stafflist, metadata, used_filenames,
                      pc, err, ix_staff, saved, first_staff, filename, filename_counter,
                      initial_clef, initial_flat_found, initial_key, clef, sharp_found,
                      flat_found, ligature, mensur, xml_lig, humdrum_line, line_humdrum,
                      mei_output, humdrum_output>>

\* lines 319-326 and 430-435
RestToken ==
  /\ Dispatched
  /\ Symbol.type \in DOMAIN RESTS_MEI
  /\ LET t == Symbol.type
         hl == RESTS_HUMDRUM[t]
     IN
     IF ~IdOK(1) THEN Raise("IndexError", IdFailAt)
     ELSE
       /\ id_counter' = id_counter + 1
       /\ docs' = AppendToLayer(Elem("rest", "rest", id_counter + 1,
                                     {<<"dur", RESTS_MEI[t]>>}, Here))
       /\ humdrum_line' = IF humdrum THEN <<hl>> ELSE humdrum_line
       /\ humdrum_string' = IF humdrum THEN Emit(humdrum_string, hl) ELSE humdrum_string
       /\ ix_symbol' = ix_symbol + 1
       /\ UNCHANGED <<returned, symbols_and_pitches, humdrum, stafflist, metadata, used_filenames,
                      pc, err, ix_staff, saved, first_staff, filename, filename_counter,
                      initial_clef, initial_flat_found, initial_key, clef, sharp_found,
                      flat_found, ligature, mensur, xml_lig, line_humdrum, mei_output,
                      humdrum_output>>

\* lines 328-384 and 430-435
NoteToken ==
  /\ Dispatched
  /\ Symbol.type \in DOMAIN NOTES_MEI
  /\ LET t == Symbol.type
         an == analyse_note(clef[1], Symbol.pitch)
         note == Elem("note", "note", id_counter + 1,
                      {<<"dur", NOTES_MEI[t]>>, <<"oct", OctStr(an.oct)>>,
                       <<"pname", an.pname>>}
                        \cup (IF t \in {"br", "sb"} THEN {<<"colored", "true">>} ELSE {}),
                      Here)
         \* lines 337-346
         lh1 == IF humdrum /\ ~ligature THEN <<NOTES_HUMDRUM[t]>> ELSE line_humdrum
         lh2 == IF humdrum /\ t \in {"br", "sb"} THEN <<NOTES_HUMDRUM[t]>> ELSE lh1
         lh3 == IF humdrum THEN <<get_humdrum_pitch(an.oct, an.pname, lh2[1])>> ELSE lh2
         \* lines 348-359
         xml_lig_new == [Elem("ligature", "ligature", id_counter + 2,
                              {<<"form", "recta">>}, Here) EXCEPT !.children = <<note>>]
         lh_open == get_humdrum_pitch(an.oct, an.pname, <<"[", "s">>)
         \* lines 361-369
         closed == [note EXCEPT !.attrs = SetAttr(@, "dur", "semibrevis")]
         note1 == IF ligature THEN closed ELSE note
         lh4 == IF humdrum /\ ligature
                THEN <<get_humdrum_pitch(an.oct, an.pname, <<"s">>) \o <<"]">>>>
                ELSE lh3
         \* lines 371-381
         note2 == IF sharp_found THEN [note1 EXCEPT !.attrs = SetAttr(@, "accid", "s")]
                  ELSE note1
         lh5 == IF humdrum /\ sharp_found THEN <<lh4[1] \o <<"#">>>> ELSE lh4
         note3 == IF flat_found THEN [note2 EXCEPT !.attrs = SetAttr(@, "accid", "f")]
                  ELSE note2
         lh6 == IF humdrum /\ flat_found THEN <<lh5[1] \o <<"-">>>> ELSE lh5
     IN
     IF an.err # "" THEN Raise(an.err, id_counter)
     ELSE IF ~IdOK(1) THEN Raise("IndexError", IdFailAt)
     ELSE IF humdrum /\ lh2 = <<>> THEN Raise("UnboundLocalError", id_counter + 1)
     ELSE IF t = "li"
     THEN IF ~IdOK(2) THEN Raise("IndexError", IdFailAt)
          ELSE
            /\ id_counter' = id_counter + 2
            /\ docs' = AppendToLayer(xml_lig_new)
            /\ xml_lig' = <<[doc |-> CurDoc, pos |-> NextPos]>>
            /\ ligature' = TRUE
            /\ line_humdrum' = IF humdrum THEN <<lh_open>> ELSE line_humdrum
            /\ humdrum_string' = IF humdrum THEN Append(humdrum_string, lh_open)
                                 ELSE humdrum_string
            /\ ix_symbol' = ix_symbol + 1
            /\ UNCHANGED <<returned, symbols_and_pitches, humdrum, stafflist, metadata,
                           used_filenames, pc, err, ix_staff, saved, first_staff,
                           filename, filename_counter, initial_clef, initial_flat_found,
                           initial_key, clef, sharp_found, flat_found, mensur,
                           humdrum_line, mei_output, humdrum_output>>
     ELSE
       /\ id_counter' = id_counter + 1
       /\ docs' = IF ligature
                  THEN [docs EXCEPT ![xml_lig[1].doc].layer[xml_lig[1].pos].children =
                                      Append(@, note3)]
                  ELSE AppendToLayer(note3)
       /\ ligature' = FALSE
       /\ sharp_found' = FALSE
       /\ flat_found' = FALSE
       /\ line_humdrum' = lh6
       /\ humdrum_line' = IF humdrum THEN lh6 ELSE humdrum_line
       /\ humdrum_string' = IF humdrum THEN Emit(humdrum_string, lh6[1]) ELSE humdrum_string
       /\ ix_symbol' = ix_symbol + 1
       /\ UNCHANGED <<returned, symbols_and_pitches, humdrum, stafflist, metadata, used_filenames,
                      pc, err, ix_staff, saved, first_staff, filename, filename_counter,
                      initial_clef, initial_flat_found, initial_key, clef, mensur,
                      xml_lig, mei_output, humdrum_output>>

\* lines 386-411
BarToken ==
  /\ Dispatched
  /\ Symbol.type = "bar"
  /\ LET barline == Elem("barLine", "barline", id_counter + 1, {<<"form", "dbl">>}, Here)
         written == AppendToLayer(barline)
         hs == IF humdrum THEN humdrum_string \o <<LineDoubleBar, LineTerminator>>
               ELSE humdrum_string
         sv == save_mei_file(metadata, filename_counter, ix_staff, filename, stafflist,
                             used_filenames)
         failed == ~IdOK(1 + DeclIds)
     IN
     IF ~IdOK(1) THEN Raise("IndexError", IdFailAt)
     ELSE
       /\ mei_output' = Append(mei_output, [name |-> sv.save_name, doc |-> written[CurDoc], by |-> "bar"])
       /\ humdrum_output' = IF humdrum
                            THEN Append(humdrum_output, [name |-> sv.mens_name, lines |-> hs, by |-> "bar"])
                            ELSE humdrum_output
       /\ used_filenames' = sv.used_filenames
       /\ filename' = sv.filename
       /\ filename_counter' = sv.filename_counter
       /\ humdrum_string' = hs
       /\ docs' = IF failed THEN written
                  ELSE Append(written, create_mei_declarations(id_counter + 1))
       /\ id_counter' = IF failed THEN IdFailAt ELSE id_counter + 1 + DeclIds
       /\ first_staff' = IF failed THEN first_staff ELSE TRUE
       /\ saved' = IF failed THEN saved ELSE TRUE
       /\ ix_symbol' = IF failed THEN ix_symbol ELSE ix_symbol + 1
       /\ pc' = IF failed THEN "error" ELSE pc
       /\ err' = IF failed THEN "IndexError" ELSE err
       /\ UNCHANGED <<returned, symbols_and_pitches, humdrum, stafflist, metadata, ix_staff,
                      initial_clef, initial_flat_found, initial_key, clef, sharp_found,
                      flat_found, ligature, mensur, xml_lig, humdrum_line, line_humdrum>>

\* CustosToken taking the last Note token of the next staff instead of the first
CustosTokenLastNote ==
  /\ Dispatched
  /\ Symbol.type = "custos"
  /\ LET lh == IF humdrum THEN <<LineCustos>> ELSE line_humdrum
         next == IF ix_staff < Len(stafflist) - 1 THEN stafflist[ix_staff + 2] ELSE <<>>
         notes == {i \in 1..Len(next) : next[i].type \in DOMAIN NOTES_MEI}
         found == notes # {}
         first == CHOOSE i \in notes : \A j \in notes : i >= j
         an == analyse_note(clef[1], next[first].pitch)
         custos == Elem("custos", "custos", id_counter + 1,
                        IF found THEN {<<"oct", OctStr(an.oct)>>, <<"pname", an.pname>>}
                        ELSE {}, Here)
         hl == IF humdrum /\ found THEN <<get_humdrum_pitch(an.oct, an.pname, lh[1])>>
               ELSE humdrum_line
     IN
     IF ~IdOK(1) THEN Raise("IndexError", IdFailAt)
     ELSE IF found /\ an.err # "" THEN Raise(an.err, id_counter + 1)
     ELSE IF humdrum /\ hl = <<>> THEN Raise("UnboundLocalError", id_counter + 1)
     ELSE
       /\ id_counter' = id_counter + 1
       /\ docs' = AppendToLayer(custos)
       /\ line_humdrum' = lh
       /\ humdrum_line' = hl
       /\ humdrum_string' = IF humdrum THEN Emit(humdrum_string, hl[1]) ELSE humdrum_string
       /\ ix_symbol' = ix_symbol + 1
       /\ UNCHANGED <<returned, symbols_and_pitches, humdrum, stafflist, metadata, used_filenames,
                      pc, err, ix_staff, saved, first_staff, filename, filename_counter,
                      initial_clef, initial_flat_found, initial_key, clef, sharp_found,
                      flat_found, ligature, mensur, xml_lig, mei_output, humdrum_output>>

\* lines 413-435
CustosToken ==
  /\ Dispatched
  /\ Symbol.type = "custos"
  /\ LET lh == IF humdrum THEN <<LineCustos>> ELSE line_humdrum
         next == IF ix_staff < Len(stafflist) - 1 THEN stafflist[ix_staff + 2] ELSE <<>>
         notes == {i \in 1..Len(next) : next[i].type \in DOMAIN NOTES_MEI}
         found == notes # {}
         first == CHOOSE i \in notes : \A j \in notes : i <= j
         an == analyse_note(clef[1], next[first].pitch)
         custos == Elem("custos", "custos", id_counter + 1,
                        IF found THEN {<<"oct", OctStr(an.oct)>>, <<"pname", an.pname>>}
                        ELSE {}, Here)
         hl == IF humdrum /\ found THEN <<get_humdrum_pitch(an.oct, an.pname, lh[1])>>
               ELSE humdrum_line
     IN
     IF ~IdOK(1) THEN Raise("IndexError", IdFailAt)
     ELSE IF found /\ an.err # "" THEN Raise(an.err, id_counter + 1)
     ELSE IF humdrum /\ hl = <<>> THEN Raise("UnboundLocalError", id_counter + 1)
     ELSE
       /\ id_counter' = id_counter + 1
       /\ docs' = AppendToLayer(custos)
       /\ line_humdrum' = lh
       /\ humdrum_line' = hl
       /\ humdrum_string' = IF humdrum THEN Emit(humdrum_string, hl[1]) ELSE humdrum_string
       /\ ix_symbol' = ix_symbol + 1
       /\ UNCHANGED <<returned, symbols_and_pitches, humdrum, stafflist, metadata, used_filenames,
                      pc, err, ix_staff, saved, first_staff, filename, filename_counter,
                      initial_clef, initial_flat_found, initial_key, clef, sharp_found,
                      flat_found, ligature, mensur, xml_lig, mei_output, humdrum_output>>

\* the types that some branch of lines 276-413 handles
HandledTypes ==
  {"flat", "sharp", "mens", "dot", "bar", "custos"} \cup DOMAIN RESTS_MEI \cup DOMAIN NOTES_MEI

\* a symbol that no branch handles (a clef other than initial_clef, an unknown type):
\* only lines 430-435 act on it
OtherToken ==
  /\ Dispatched
  /\ Symbol.type \notin HandledTypes
  /\ IF humdrum /\ humdrum_line = <<>> THEN Raise("UnboundLocalError", id_counter)
     ELSE
       /\ humdrum_string' = IF humdrum THEN Emit(humdrum_string, humdrum_line[1])
                            ELSE humdrum_string
       /\ ix_symbol' = ix_symbol + 1
       /\ UNCHANGED <<returned, symbols_and_pitches, humdrum, stafflist, metadata, id_counter,
                      used_filenames, pc, err, ix_staff, saved, first_staff, filename,
                      filename_counter, docs, initial_clef, initial_flat_found,
                      initial_key, clef, sharp_found, flat_found, ligature, mensur,
                      xml_lig, humdrum_line, line_humdrum, mei_output, humdrum_output>>

(***************************************************************************)
(* Tail of the staff loop, lines 437-442, and the step to the next staff.  *)
(***************************************************************************)
\* StaffEnd appending the separator also when the staff held a Barline token
StaffEndSeparatingAfterBarline ==
  /\ pc = "symbol"
  /\ ix_symbol = Len(Staff)
  /\ LET last == ix_staff = Len(stafflist) - 1
         separator == ~last
         barline == Elem("barLine", "barline", id_counter + 1, {<<"visible", "false">>}, Here)
     IN
     IF separator /\ ~IdOK(1) THEN Raise("IndexError", IdFailAt)
     ELSE
       /\ docs' = IF separator THEN AppendToLayer(barline) ELSE docs
       /\ id_counter' = IF separator THEN id_counter + 1 ELSE id_counter
       /\ ix_staff' = IF last THEN ix_staff ELSE ix_staff + 1
       /\ pc' = IF last THEN "finish" ELSE "staff"
       /\ UNCHANGED <<returned, symbols_and_pitches, humdrum, stafflist, metadata, used_filenames,
                      err, ix_symbol, saved, first_staff, filename, filename_counter,
                      humdrum_string, initial_clef, initial_flat_found, initial_key,
                      clef, sharp_found, flat_found, ligature, mensur, xml_lig,
                      humdrum_line, line_humdrum, mei_output, humdrum_output>>

StaffEnd ==
  /\ pc = "symbol"
  /\ ix_symbol = Len(Staff)
  /\ LET last == ix_staff = Len(stafflist) - 1
         separator == ~saved /\ ~last
         barline == Elem("barLine", "barline", id_counter + 1, {<<"visible", "false">>}, Here)
     IN
     IF separator /\ ~IdOK(1) THEN Raise("IndexError", IdFailAt)
     ELSE
       /\ docs' = IF separator THEN AppendToLayer(barline) ELSE docs
       /\ id_counter' = IF separator THEN id_counter + 1 ELSE id_counter
       /\ ix_staff' = IF last THEN ix_staff ELSE ix_staff + 1
       /\ pc' = IF last THEN "finish" ELSE "staff"
       /\ UNCHANGED <<returned, symbols_and_pitches, humdrum, stafflist, metadata, used_filenames,
                      err, ix_symbol, saved, first_staff, filename, filename_counter,
                      humdrum_string, initial_clef, initial_flat_found, initial_key,
                      clef, sharp_found, flat_found, ligature, mensur, xml_lig,
                      humdrum_line, line_humdrum, mei_output, humdrum_output>>

(***************************************************************************)
(* After the loops, lines 444-448.                                         *)
(***************************************************************************)
Finish ==
  /\ pc = "finish"
  /\ LET sv == save_mei_file(metadata, filename_counter, ix_staff, filename, stafflist,
                             used_filenames)
     IN
     /\ mei_output' = IF saved THEN mei_output
                      ELSE Append(mei_output, [name |-> sv.save_name, doc |-> docs[CurDoc], by |-> "end"])
     /\ humdrum_output' = IF ~saved /\ humdrum
                          THEN Append(humdrum_output,
                                      [name |-> sv.mens_name, lines |-> humdrum_string,
                                       by |-> "end"])
                          ELSE humdrum_output
     /\ used_filenames' = IF saved THEN used_filenames ELSE sv.used_filenames
  /\ pc' = "done"
  /\ UNCHANGED <<returned, symbols_and_pitches, humdrum, stafflist, metadata, id_counter, err,
                 ix_staff, ix_symbol, saved, first_staff, filename, filename_counter,
                 humdrum_string, docs, initial_clef, initial_flat_found, initial_key,
                 clef, sharp_found, flat_found, ligature, mensur, xml_lig,
                 humdrum_line, line_humdrum>>

(***************************************************************************)
(* The piece streams converted.  A token is the dictionary built by        *)
(* detect_pitches (pitch_detection/detect_pitches.py lines 139-142).       *)
(***************************************************************************)
Tk(t, p) == [type |-> t, pitch |-> p]

ClefCG == Tk("clef", "c-c-g")
ClefF == Tk("clef", "c-f")
Flat == Tk("flat", "")
Sharp == Tk("sharp", "")
MensC == Tk("mens", "met_c")
Mens32 == Tk("mens", "met_3_2")
Dot == Tk("dot", "")
RestMi == Tk("r-mi", "")
NoteMi == Tk("mi", "g1")
NoteLi == Tk("li", "a1")
NoteSb == Tk("sb", "c1")
Bar == Tk("bar", "")
Custos == Tk("custos", "")
Fermata == Tk("fermata", "")

ClefCodes == DOMAIN CLEFS_HUMDRUM

LabelA == <<"A">>
LabelB == <<"B">>

\* the tokens that follow the clef in the one-staff pieces
BodyTokens == {ClefF, Flat, Sharp, MensC, Mens32, Dot, RestMi, NoteMi, NoteLi, NoteSb,
               Bar, Custos, Fermata}

SeqsUpTo(S, n) == UNION {[1..k -> S] : k \in 1..n}

\* one staff: the clef, then up to MaxBody tokens
OneStaffPieces ==
  { << <<LabelA, << <<ClefCG>> \o body >> >> >> : body \in SeqsUpTo(BodyTokens, MaxBody) }

\* one staff: every clef code with a note on every step, alone or closing a ligature
PitchPieces ==
  { << <<LabelA, << <<Tk("clef", c), Tk("mi", p)>> >> >> >> :
      c \in ClefCodes, p \in DOMAIN MENSURAL_NOTE_STEPS }

\* one staff: a ligature note followed by a note of every kind
LigaturePieces ==
  { << <<LabelA, << <<ClefCG, Tk("li", "g1"), Tk(k, "a1")>> \o tail >> >> >> :
      k \in DOMAIN NOTES_MEI, tail \in {<<>>, <<Bar>>} }

\* the staves that the pieces of several staves are assembled from
StaffShapes ==
  { <<ClefCG, Flat, NoteMi>>,
    <<ClefCG, NoteMi>>,
    <<ClefF, NoteMi>>,
    <<NoteMi, Custos>>,
    <<NoteMi, Bar>>,
    <<RestMi, Flat, NoteMi>>,
    <<ClefCG, Bar, NoteLi>>,
    <<ClefCG, Bar, Bar>> }

\* all staves under one label, or the first staff under one label and the rest under another
Labelled(staves) ==
  { << <<LabelA, staves>> >> } \cup
  (IF Len(staves) > 1
   THEN { << <<LabelA, <<Head(staves)>> >>, <<LabelB, Tail(staves)>> >> }
   ELSE {})

ShapePieces == UNION { Labelled(staves) : staves \in SeqsUpTo(StaffShapes, MaxStaves) }

\* the end-to-end scenario and its variant with the clef on the second staff
EndToEndStaff == <<ClefCG, Flat, MensC, NoteMi, Bar>>

EndToEndPiece == << <<LabelA, <<EndToEndStaff>> >> >>

ScenarioPieces ==
  { EndToEndPiece,
    << <<LabelA, << <<MensC, NoteMi>>, EndToEndStaff >> >> >>,
    << <<LabelA, << <<MensC, NoteMi>>, EndToEndStaff, <<NoteMi>> >> >> >> }

\* pieces with tokens on both sides of a Barline, and a custos before a staff of
\* several notes
SplitPieces ==
  { << <<LabelA, << <<ClefCG, Tk("li", "g1"), Bar, Tk("mi", "a1"), Bar>> >> >> >>,
    << <<LabelA, << <<ClefCG, MensC, Bar, Mens32>>, <<NoteMi>> >> >> >>,
    << <<LabelA, << <<ClefCG, NoteMi>>, <<ClefF, NoteMi>>, <<NoteMi, Bar>>, <<NoteMi>> >> >> >>,
    << <<LabelA, << <<ClefCG, NoteMi, Custos>>, <<RestMi, Tk("mi", "a1"), NoteMi>> >> >> >>,
    << <<LabelA, << <<ClefCG, NoteMi, Custos>>, <<RestMi, Dot>> >> >> >> }

Pieces == OneStaffPieces \cup PitchPieces \cup LigaturePieces \cup ShapePieces
            \cup ScenarioPieces \cup SplitPieces

\* the pieces converted when the function is called several times in one process
ProcessPieces ==
  { EndToEndPiece,
    << <<LabelA, << <<ClefCG, NoteMi>> >> >>, <<LabelB, << <<NoteMi>> >> >> >>,
    << <<LabelA, << <<ClefCG, MensC, Mens32, Sharp, Flat, NoteMi, Dot, RestMi, Custos,
                      Fermata>> >> >> >>,
    << <<LabelA, << <<RestMi, NoteMi>> >> >> >>,
    << <<LabelA, << <<ClefCG, Custos>> >> >> >> }

(***************************************************************************)
(* Entry of convert_to_mei_and_humdrum in a fresh process (lines 61-64     *)
(* and 198-201).                                                           *)
(***************************************************************************)
Init ==
  /\ symbols_and_pitches \in Pieces
  /\ humdrum \in BOOLEAN
  /\ stafflist = convert_to_combined_list_with_metadata(symbols_and_pitches).list
  /\ metadata = convert_to_combined_list_with_metadata(symbols_and_pitches).meta
  /\ id_counter = 0
  /\ used_filenames = <<>>
  /\ pc = "staff"
  /\ err = ""
  /\ ix_staff = 0
  /\ ix_symbol = 0
  /\ saved = FALSE
  /\ first_staff = FALSE
  /\ filename = <<>>
  /\ filename_counter = 0
  /\ humdrum_string = <<LineMens>>
  /\ docs = <<>>
  /\ initial_clef = <<>>
  /\ initial_flat_found = FALSE
  /\ initial_key = <<>>
  /\ clef = <<>>
  /\ sharp_found = FALSE
  /\ flat_found = FALSE
  /\ ligature = FALSE
  /\ mensur = <<>>
  /\ xml_lig = <<>>
  /\ humdrum_line = <<>>
  /\ line_humdrum = <<>>
  /\ mei_output = <<>>
  /\ humdrum_output = <<>>
  /\ returned = <<>>

Next ==
  \/ StaffStart
  \/ SkipInitialClef
  \/ SkipInitialKey
  \/ FlatToken
  \/ SharpToken
  \/ ProportionToken
  \/ MensurationToken
  \/ DotToken
  \/ RestToken
  \/ NoteToken
  \/ BarToken
  \/ CustosToken
  \/ OtherToken
  \/ StaffEnd
  \/ Finish

Spec == Init /\ [][Next]_vars

(***************************************************************************)
(* Several calls in one process.  The module globals id_counter and        *)
(* used_filenames (lines 61-64) keep their values from one call to the     *)
(* next; everything else is local to the call (lines 132 and 198-201).     *)
(***************************************************************************)
Names(writes) == [i \in 1..Len(writes) |-> writes[i].name]

\* what the call that has just ended leaves behind
Outcome ==
  [piece |-> symbols_and_pitches, humdrum |-> humdrum, err |-> err,
   mei_names |-> Names(mei_output), humdrum_names |-> Names(humdrum_output)]

\* the locals at the entry of a call on piece with flag h
Entry(piece, h) ==
  /\ symbols_and_pitches' = piece
  /\ humdrum' = h
  /\ stafflist' = convert_to_combined_list_with_metadata(piece).list
  /\ metadata' = convert_to_combined_list_with_metadata(piece).meta
  /\ pc' = "staff"
  /\ err' = ""
  /\ ix_staff' = 0
  /\ ix_symbol' = 0
  /\ saved' = FALSE
  /\ first_staff' = FALSE
  /\ filename' = <<>>
  /\ filename_counter' = 0
  /\ humdrum_string' = <<LineMens>>
  /\ docs' = <<>>
  /\ initial_clef' = <<>>
  /\ initial_flat_found' = FALSE
  /\ initial_key' = <<>>
  /\ clef' = <<>>
  /\ sharp_found' = FALSE
  /\ flat_found' = FALSE
  /\ ligature' = FALSE
  /\ mensur' = <<>>
  /\ xml_lig' = <<>>
  /\ humdrum_line' = <<>>
  /\ line_humdrum' = <<>>
  /\ mei_output' = <<>>
  /\ humdrum_output' = <<>>

\* the caller calls convert_to_mei_and_humdrum again after a call has ended
Call ==
  /\ pc \in {"done", "error"}
  /\ Len(returned) + 1 < MaxCalls
  /\ \E piece \in ProcessPieces, h \in BOOLEAN : Entry(piece, h)
  /\ returned' = Append(returned, Outcome)
  /\ UNCHANGED <<id_counter, used_filenames>>

\* the first call in a fresh process
InitProcess ==
  /\ symbols_and_pitches \in ProcessPieces
  /\ humdrum \in BOOLEAN
  /\ stafflist = convert_to_combined_list_with_metadata(symbols_and_pitches).list
  /\ metadata = convert_to_combined_list_with_metadata(symbols_and_pitches).meta
  /\ id_counter = 0
  /\ used_filenames = <<>>
  /\ pc = "staff"
  /\ err = ""
  /\ ix_staff = 0
  /\ ix_symbol = 0
  /\ saved = FALSE
  /\ first_staff = FALSE
  /\ filename = <<>>
  /\ filename_counter = 0
  /\ humdrum_string = <<LineMens>>
  /\ docs = <<>>
  /\ initial_clef = <<>>
  /\ initial_flat_found = FALSE
  /\ initial_key = <<>>
  /\ clef = <<>>
  /\ sharp_found = FALSE
  /\ flat_found = FALSE
  /\ ligature = FALSE
  /\ mensur = <<>>
  /\ xml_lig = <<>>
  /\ humdrum_line = <<>>
  /\ line_humdrum = <<>>
  /\ mei_output = <<>>
  /\ humdrum_output = <<>>
  /\ returned = <<>>

NextProcess == Next \/ Call

SpecProcess == InitProcess /\ [][NextProcess]_vars

(***************************************************************************)
(* A call in a process that has converted the same one-staff piece many    *)
(* times before.  Each of those calls took DeclIds identifiers for the     *)
(* declarations, one for the clef and one for the note, and wrote one      *)
(* document; the first of them put its label into used_filenames.          *)
(***************************************************************************)
EarlierPiece == << <<LabelA, << <<ClefCG, NoteMi>> >> >> >>

\* identifiers taken by one call on EarlierPiece
EarlierIds == DeclIds + 1 + 1

EarlierOutcome ==
  [piece |-> EarlierPiece, humdrum |-> FALSE, err |-> "",
   mei_names |-> <<LabelA \o <<"_", "0", "1">> \o ExtMei>>, humdrum_names |-> <<>>]

InitLongProcess ==
  /\ symbols_and_pitches \in ProcessPieces
  /\ humdrum \in BOOLEAN
  /\ stafflist = convert_to_combined_list_with_metadata(symbols_and_pitches).list
  /\ metadata = convert_to_combined_list_with_metadata(symbols_and_pitches).meta
  /\ \E n \in (EarlierCalls - 2)..EarlierCalls :
       /\ id_counter = n * EarlierIds
       /\ returned = [i \in 1..n |-> EarlierOutcome]
  /\ used_filenames = <<LabelA>>
  /\ pc = "staff"
  /\ err = ""
  /\ ix_staff = 0
  /\ ix_symbol = 0
  /\ saved = FALSE
  /\ first_staff = FALSE
  /\ filename = <<>>
  /\ filename_counter = 0
  /\ humdrum_string = <<LineMens>>
  /\ docs = <<>>
  /\ initial_clef = <<>>
  /\ initial_flat_found = FALSE
  /\ initial_key = <<>>
  /\ clef = <<>>
  /\ sharp_found = FALSE
  /\ flat_found = FALSE
  /\ ligature = FALSE
  /\ mensur = <<>>
  /\ xml_lig = <<>>
  /\ humdrum_line = <<>>
  /\ line_humdrum = <<>>
  /\ mei_output = <<>>
  /\ humdrum_output = <<>>

SpecLongProcess == InitLongProcess /\ [][Next]_vars

(***************************************************************************)
(* Properties.                                                             *)
(***************************************************************************)
Ended == pc \in {"done", "error"}

\* the symbol whose iteration has just ended
Previous == Staff[ix_symbol]

AfterSymbol == pc = "symbol" /\ ix_symbol > 0

Count(seq, x) == Cardinality({i \in 1..Len(seq) : seq[i] = x})

\* C1: immediately after a Barline token, sharp_found, flat_found and ligature are
\* all false, wherever the Barline stands in its staff.
C1_BarlineResetsFlags ==
  (AfterSymbol /\ Previous.type = "bar") => (~sharp_found /\ ~flat_found /\ ~ligature)

\* C2: every written document whose clef was set at the head of a staff after a
\* Barline carries the same key signature as the document written before it.
C2_KeyPersistsAcrossBarline ==
  \A i \in 1..(Len(mei_output) - 1) :
    mei_output[i + 1].doc.clef.id # <<>> =>
      mei_output[i + 1].doc.keySig.attrs = mei_output[i].doc.keySig.attrs

\* C3: no two documents of a run are written under the same file name.
C3_NoFileNameCollision ==
  \A i, j \in 1..Len(mei_output) : i # j => mei_output[i].name # mei_output[j].name

\* C4: every flat buffer written holds the declaration line once, as its first line,
\* and one written at a Barline holds the double-barline line and the terminator
\* once each, as its last two lines.
C4_FlatBufferSelfContained ==
  \A i \in 1..Len(humdrum_output) :
    LET b == humdrum_output[i].lines IN
    /\ b[1] = LineMens
    /\ Count(b, LineMens) = 1
    /\ humdrum_output[i].by = "bar" =>
         /\ Count(b, LineDoubleBar) = 1
         /\ Count(b, LineTerminator) = 1
         /\ SubSeq(b, Len(b) - 1, Len(b)) = <<LineDoubleBar, LineTerminator>>

\* C5: for a 'li' note followed by a note of any kind K, the document holds exactly
\* one ligature element; it contains those two notes in order and the second has
\* dur semibrevis.
C5_LigaturePairing ==
  (symbols_and_pitches \in LigaturePieces /\ Ended) =>
    /\ pc = "done"
    /\ LET layer == mei_output[1].doc.layer
           ligs == {i \in 1..Len(layer) : layer[i].tag = "ligature"}
       IN /\ Cardinality(ligs) = 1
          /\ \A i \in ligs :
               /\ Len(layer[i].children) = 2
               /\ layer[i].children[1].src = <<0, 1>>
               /\ layer[i].children[2].src = <<0, 2>>
               /\ Attr(layer[i].children[2], "dur") = "semibrevis"

\* C6: after a Note token of any kind no accidental is pending: the note has taken
\* the accidental and cleared the flag.
C6_AccidentalConsumedByNextNote ==
  (AfterSymbol /\ Previous.type \in DOMAIN NOTES_MEI) => (~sharp_found /\ ~flat_found)

\* the layer of the end-to-end document apart from its note
EndToEndRest(layer) ==
  /\ Len(layer) = 3
  /\ layer[1].tag = "mensur"
  /\ Attr(layer[1], "sign") = "C"
  /\ ~HasAttr(layer[1], "slash")
  /\ layer[2].tag = "note"
  /\ Attr(layer[2], "dur") = "minima"
  /\ Attr(layer[2], "oct") = "4"
  /\ layer[3].tag = "barLine"
  /\ Attr(layer[3], "form") = "dbl"

EndToEndHead(doc) ==
  /\ doc.clef.attrs = {<<"shape", "C">>, <<"line", "2">>}
  /\ doc.keySig.attrs = {<<"sig", "1f">>}

\* C7 as amended: the end-to-end piece ends without error in one document with clef
\* C on line 2, a one-flat keySig, one mensur with sign C and no slash, one note with
\* dur minima, oct 4 and pname c, and one double barline.
C7_EndToEndDocument ==
  symbols_and_pitches = EndToEndPiece =>
    /\ pc # "error"
    /\ pc = "done" =>
         /\ Len(mei_output) = 1
         /\ EndToEndHead(mei_output[1].doc)
         /\ EndToEndRest(mei_output[1].doc.layer)
         /\ Attr(mei_output[1].doc.layer[2], "pname") = "c"

\* C7 as stated: the same, with pname g for the note.
C7_EndToEndDocumentAsStated ==
  (symbols_and_pitches = EndToEndPiece /\ pc = "done") =>
    /\ Len(mei_output) = 1
    /\ EndToEndHead(mei_output[1].doc)
    /\ EndToEndRest(mei_output[1].doc.layer)
    /\ Attr(mei_output[1].doc.layer[2], "pname") = "g"

C7_Witness ==
  /\ symbols_and_pitches = EndToEndPiece
  /\ pc = "done"
  /\ Len(mei_output) = 1

\* the flat buffer of the end-to-end piece with its note line left open
EndToEndLines(note_line) ==
  << LineMens, <<"*", "c", "l", "e", "f", "C", "2">>, LineKeyFlat,
     <<"*", "m", "e", "t", "(", "C", ")">>, note_line, LineDoubleBar, LineTerminator >>

\* C8 as amended: with the alternate encoding requested, the flat buffer written for
\* the end-to-end piece is the seven lines '**mens', '*clefC2', '*k[b-]', '*met(C)',
\* 'Mc', '=||', '*-'.
C8_EndToEndFlatEncoding ==
  (symbols_and_pitches = EndToEndPiece /\ humdrum) =>
    /\ pc # "error"
    /\ pc = "done" =>
         /\ Len(humdrum_output) = 1
         /\ humdrum_output[1].lines = EndToEndLines(<<"M", "c">>)

\* C8 as stated: the same, with the pitch of the note line the single letter g.
C8_EndToEndFlatEncodingAsStated ==
  (symbols_and_pitches = EndToEndPiece /\ humdrum /\ pc = "done") =>
    /\ Len(humdrum_output) = 1
    /\ Len(humdrum_output[1].lines) = 7
    /\ humdrum_output[1].lines = EndToEndLines(humdrum_output[1].lines[5])
    /\ Last(humdrum_output[1].lines[5]) = "g"
    /\ Count(humdrum_output[1].lines[5], "g") = 1

C8_Witness ==
  /\ symbols_and_pitches = EndToEndPiece
  /\ humdrum
  /\ pc = "done"
  /\ Len(humdrum_output) = 1

\* what C9 states for rel = step_position(step) - clef_reference_step(clef)
C9_Cycle == <<"c", "d", "e", "f", "g", "a", "b">>

C9_Octave(rel) ==
  IF -7 <= rel /\ rel < 0 THEN 3
  ELSE IF rel > 6 THEN 5
  ELSE IF -14 <= rel /\ rel < -7 THEN 2
  ELSE 4

\* C9: for every clef code and every step code the note gets a pitch: the letter is
\* entry rel mod 7 of the cycle c..b and the octave is 3, 5, 2 or 4 by the range of rel.
C9_PitchForEveryClefAndStep ==
  (symbols_and_pitches \in PitchPieces /\ Ended) =>
    /\ pc = "done"
    /\ LET rel == MENSURAL_NOTE_STEPS[stafflist[1][2].pitch]
                    - ClefLine(stafflist[1][1].pitch)[1]
           note == mei_output[1].doc.layer[1]
       IN /\ Attr(note, "pname") = C9_Cycle[(rel % 7) + 1]
          /\ Attr(note, "oct") = OctStr(C9_Octave(rel))

\* the staves after the first that begin with a Clef token
C10_ClefStaves == {i \in 2..Len(stafflist) : stafflist[i][1].type = "clef"}

\* C10: when the first staff has no Clef token and a later staff begins with one,
\* the head of the first staff ends with the clef of the first such staff as the
\* governing clef.
C10_ClefForwardLookahead ==
  ( /\ \A k \in 1..Len(stafflist[1]) : stafflist[1][k].type # "clef"
    /\ C10_ClefStaves # {}
    /\ ix_staff = 0
    /\ pc # "staff" ) =>
      /\ pc # "error"
      /\ clef = <<stafflist[CHOOSE i \in C10_ClefStaves : \A j \in C10_ClefStaves : i <= j][1]>>

\* no Clef token anywhere in the piece stream
NoClefInStream ==
  \A i \in 1..Len(stafflist) : \A k \in 1..Len(stafflist[i]) : stafflist[i][k].type # "clef"

\* C11: when no Clef token exists anywhere in the piece stream the run never gets
\* past the head of the first staff and nothing is written, with either value of the
\* humdrum flag.
C11_NoClefNoOutput ==
  NoClefInStream =>
    /\ pc \in {"staff", "error"}
    /\ ix_staff = 0
    /\ mei_output = <<>>
    /\ humdrum_output = <<>>

C11_Witness ==
  /\ NoClefInStream
  /\ Len(stafflist) > 1
  /\ \E i \in 1..Len(stafflist) : \E k \in 1..Len(stafflist[i]) : stafflist[i][k].type = "bar"
  /\ pc = "error"
  /\ mei_output = <<>>

\* a before b in stream order, for positions <<staff, symbol>>
Before(a, b) == a[1] < b[1] \/ (a[1] = b[1] /\ a[2] < b[2])

\* the positions of the tokens for which a handler creates an element
Emitting ==
  { pos \in UNION { {<<i - 1, k - 1>> : k \in 1..Len(stafflist[i])} : i \in 1..Len(stafflist) } :
      LET sym == stafflist[pos[1] + 1][pos[2] + 1] IN
      \/ sym.type \in DOMAIN NOTES_MEI \cup DOMAIN RESTS_MEI \cup {"dot", "bar", "custos"}
      \/ sym.type = "mens" /\ sym.pitch # "met_3_2" }

\* the positions whose elements are in the layer, ligature children included
Held(layer) ==
  {layer[i].src : i \in 1..Len(layer)} \cup
  UNION { {layer[i].children[j].src : j \in 1..Len(layer[i].children)} : i \in 1..Len(layer) }

\* the position of the Barline at which the i-th document was written
BarOf(i) == mei_output[i].doc.layer[Len(mei_output[i].doc.layer)].src

\* C12: a document written at a Barline ends with that Barline's double barline and
\* contains the element of every element-creating token between the previous
\* Barline (or the start of the stream) and this one.
C12_BarlineFinalizesEverythingSince ==
  \A i \in 1..Len(mei_output) :
    mei_output[i].by = "bar" =>
      LET layer == mei_output[i].doc.layer
          bar == layer[Len(layer)]
      IN /\ bar.tag = "barLine"
         /\ Attr(bar, "form") = "dbl"
         /\ \A pos \in Emitting :
              ( /\ Before(pos, bar.src) \/ pos = bar.src
                /\ i > 1 => Before(BarOf(i - 1), pos) ) => pos \in Held(layer)

\* C13: when the staff after the one in which a Barline wrote a document does not
\* begin with a Clef token, the document written next has the same clef element
\* attributes as that document.
C13_ClefPersistsAcrossBarline ==
  \A i \in 1..(Len(mei_output) - 1) :
    LET s == BarOf(i)[1] IN
    ( /\ s + 2 <= Len(stafflist)
      /\ stafflist[s + 2][1].type # "clef" ) =>
        mei_output[i + 1].doc.clef.attrs = mei_output[i].doc.clef.attrs

\* C14: a met_3_2 token never changes a mensur element of a document that has been
\* written, and when it is the first mensuration token of a document opened by a
\* Barline the last line of the flat buffer is still a mensuration line after it.
C14_MensurationResetsAtSplit ==
  /\ \A i \in 1..Len(mei_output) :
       \A k \in 1..Len(mei_output[i].doc.layer) :
         mei_output[i].doc.layer[k].tag = "mensur" =>
           docs[i].layer[k].attrs = mei_output[i].doc.layer[k].attrs
  /\ ( /\ AfterSymbol
       /\ Previous = Mens32
       /\ humdrum
       /\ CurDoc > 1
       /\ \A k \in 1..Len(docs[CurDoc].layer) : docs[CurDoc].layer[k].tag # "mensur" ) =>
         SubSeq(Last(humdrum_string), 1, 5) = <<"*", "m", "e", "t", "(">>

\* the label of the staff at which the i-th document was written
LabelOf(i) ==
  IF mei_output[i].by = "bar" THEN metadata[BarOf(i)[1] + 1] ELSE metadata[Len(metadata)]

\* C15: the i-th document written is named <L>_<NN>.mei, L the label of the staff
\* at which it was written and NN the two-digit count of the documents written so
\* far under L.
C15_PerLabelCounterNames ==
  \A i \in 1..Len(mei_output) :
    LET n == Cardinality({j \in 1..i : LabelOf(j) = LabelOf(i)}) IN
    mei_output[i].name = LabelOf(i) \o <<"_">> \o Zfill2(Str(n)) \o ExtMei

\* the staff after the current one, <<>> when there is none
C16_NextStaff == IF ix_staff + 2 <= Len(stafflist) THEN stafflist[ix_staff + 2] ELSE <<>>

C16_NextNotes == {k \in 1..Len(C16_NextStaff) : C16_NextStaff[k].type \in DOMAIN NOTES_MEI}

\* the pitch attributes C16 states for the custos of the current staff
C16_Pitch ==
  IF C16_NextNotes = {} THEN {}
  ELSE LET k == CHOOSE i \in C16_NextNotes : \A j \in C16_NextNotes : i <= j
           an == analyse_note(clef[1], C16_NextStaff[k].pitch)
       IN {<<"oct", OctStr(an.oct)>>, <<"pname", an.pname>>}

\* C16: after a Custos token the custos element carries oct and pname exactly when
\* a staff follows that contains a Note token, and then they are the pitch of the
\* first Note token of that staff under the governing clef.
C16_CustosLookahead ==
  (AfterSymbol /\ Previous.type = "custos") =>
    LET layer == docs[CurDoc].layer
        custos == layer[Len(layer)]
    IN /\ custos.tag = "custos"
       /\ custos.src = <<ix_staff, ix_symbol - 1>>
       /\ custos.attrs = C16_Pitch

\* a custos has taken the pitch of the second token of a next staff that holds
\* another note after it
C16_Witness ==
  /\ AfterSymbol
  /\ Previous.type = "custos"
  /\ Cardinality(C16_NextNotes) = 2
  /\ 1 \notin C16_NextNotes
  /\ docs[CurDoc].layer[Len(docs[CurDoc].layer)].attrs = {<<"oct", "4">>, <<"pname", "d">>}

\* the places of the elements of the trees built so far: <<doc, part, i, j>>, j > 0
\* for the j-th child of the i-th element of the layer
Places ==
  UNION { {<<d, "scaffold", i, 0>> : i \in 1..Len(docs[d].scaffold)}
            \cup {<<d, "clef", 0, 0>>, <<d, "keySig", 0, 0>>}
            \cup {<<d, "layer", i, 0>> : i \in 1..Len(docs[d].layer)}
            \cup UNION { {<<d, "layer", i, j>> : j \in 1..Len(docs[d].layer[i].children)} :
                           i \in 1..Len(docs[d].layer) } :
          d \in 1..Len(docs) }

ElemAt(a) ==
  CASE a[2] = "scaffold" -> docs[a[1]].scaffold[a[3]]
    [] a[2] = "clef" -> docs[a[1]].clef
    [] a[2] = "keySig" -> docs[a[1]].keySig
    [] a[4] = 0 -> docs[a[1]].layer[a[3]]
    [] OTHER -> docs[a[1]].layer[a[3]].children[a[4]]

\* C17: no two elements of the trees built in a run, in one document or in
\* different ones, carry the same identifier.
C17_IdentifiersUnique ==
  LET carrying == {a \in Places : ElemAt(a).id # <<>>} IN
  Cardinality({ElemAt(a).id : a \in carrying}) = Cardinality(carrying)

\* a run has ended with two trees built, the first holding a ligature of two notes
C17_Witness ==
  /\ pc = "done"
  /\ Len(docs) = 2
  /\ \E i \in 1..Len(docs[1].layer) :
       docs[1].layer[i].tag = "ligature" /\ Len(docs[1].layer[i].children) = 2

\* the elements of the score tree of a document
C18_Elements(doc) ==
  {doc.scaffold[i] : i \in 1..Len(doc.scaffold)} \cup {doc.clef, doc.keySig}
    \cup {doc.layer[i] : i \in 1..Len(doc.layer)}
    \cup UNION { {doc.layer[i].children[j] : j \in 1..Len(doc.layer[i].children)} :
                   i \in 1..Len(doc.layer) }

\* C18: every element of the score tree of every written document carries an
\* identifier.
C18_IdentifiersPresent ==
  \A i \in 1..Len(mei_output) : \A e \in C18_Elements(mei_output[i].doc) : e.id # <<>>

\* the token kinds of the lexicon
C19_KnownKinds ==
  {"clef", "flat", "sharp", "mens", "dot", "bar", "custos"}
    \cup DOMAIN RESTS_MEI \cup DOMAIN NOTES_MEI

\* C19: the symbol loop never goes on after a token whose kind is not in the lexicon:
\* reaching such a token ends the run in an error.
C19_UnknownKindIsAnError ==
  ~(AfterSymbol /\ Previous.type \notin C19_KnownKinds)

\* the calls that have ended in this process, the current one included
C20_Ended == returned \o (IF Ended THEN <<Outcome>> ELSE <<>>)

\* C20: a call on the piece and flag of the first call of the process ends with the
\* same file names and the same outcome as that first call.
C20_CallsShareNoState ==
  \A i \in 1..Len(C20_Ended) :
    ( /\ C20_Ended[i].piece = C20_Ended[1].piece
      /\ C20_Ended[i].humdrum = C20_Ended[1].humdrum ) =>
        /\ C20_Ended[i].err = C20_Ended[1].err
        /\ C20_Ended[i].mei_names = C20_Ended[1].mei_names
        /\ C20_Ended[i].humdrum_names = C20_Ended[1].humdrum_names

\* C21: the flat file written for a document has the name of its hierarchical file
\* with '.mens' in place of '.mei'.
C21_SameBaseName ==
  humdrum =>
    \A i \in 1..Len(humdrum_output) :
      /\ i <= Len(mei_output)
      /\ humdrum_output[i].name = DropLast(mei_output[i].name, Len(ExtMei)) \o ExtMens

\* the positions of the Barline tokens
C22_Bars ==
  {pos \in Emitting : stafflist[pos[1] + 1][pos[2] + 1].type = "bar"}

\* C22: when a run has ended without error, the element of every element-creating
\* token after the last Barline token is in a written document.
C22_EndOfStreamClose ==
  pc = "done" =>
    \A pos \in Emitting :
      (\A b \in C22_Bars : Before(b, pos)) =>
        \E i \in 1..Len(mei_output) : pos \in Held(mei_output[i].doc.layer)

RECURSIVE C23_Flat(_)
\* the token positions of the elements of a layer in document order, a ligature
\* replaced by its notes
C23_Flat(layer) ==
  IF layer = <<>> THEN <<>>
  ELSE LET e == Head(layer) IN
       (IF e.tag = "ligature"
        THEN [j \in 1..Len(e.children) |-> e.children[j].src]
        ELSE <<e.src>>) \o C23_Flat(Tail(layer))

\* C23: the elements of every written document, read in document order, are in the
\* order of the tokens that produced them.
C23_StreamOrderPreserved ==
  \A i \in 1..Len(mei_output) :
    LET order == C23_Flat(mei_output[i].doc.layer) IN
    \A k \in 1..(Len(order) - 1) : Before(order[k], order[k + 1])

\* a line of the flat encoding that begins with '*met('
IsMensurationLine(line) == Len(line) >= 5 /\ SubSeq(line, 1, 5) = <<"*", "m", "e", "t", "(">>

\* C24: the step of a met_3_2 token adds no element to any tree and no line to the
\* flat buffer, and every line of the flat buffer that it changes is a '*met(' line.
C24_ProportionEditsOnlyMensuration ==
  [][ (AtSymbol /\ Symbol = Mens32 /\ pc' = "symbol") =>
        /\ Len(docs') = Len(docs)
        /\ \A d \in 1..Len(docs) : Len(docs'[d].layer) = Len(docs[d].layer)
        /\ Len(humdrum_string') = Len(humdrum_string)
        /\ \A i \in 1..Len(humdrum_string) :
             humdrum_string'[i] # humdrum_string[i] => IsMensurationLine(humdrum_string[i]) ]_vars

\* C25: with the alternate encoding requested, after a Custos token the flat buffer
\* ends with a line that begins with '*custos' followed by the two fixed lines
\* '!!LO:LB:g=z' and '=-'.
C25_CustosLines ==
  (AfterSymbol /\ Previous.type = "custos" /\ humdrum) =>
    LET n == Len(humdrum_string) IN
    /\ n >= 3
    /\ SubSeq(humdrum_string[n - 2], 1, Len(LineCustos)) = LineCustos
    /\ humdrum_string[n - 1] = LineLayoutBreak
    /\ humdrum_string[n] = LineInvisibleBar

\* the current staff holds a Barline token
C26_SawBarline == \E k \in 1..Len(Staff) : Staff[k].type = "bar"

C26_Separator ==
  [tag |-> "barLine", id |-> <<"barline", id_counter + 1>>,
   attrs |-> {<<"visible", "false">>}, children |-> <<>>, src |-> <<ix_staff, ix_symbol>>]

\* C26: the step at the end of a staff appends one barLine with visible 'false' to
\* the current document when the staff held no Barline token and is not the last
\* one, and leaves the trees alone otherwise; it never changes the flat buffer, the
\* files written, the clef or the key.
C26_StaffEndSeparator ==
  [][ (pc = "symbol" /\ ix_symbol = Len(Staff) /\ pc' # "error") =>
        /\ IF ~C26_SawBarline /\ ix_staff + 1 < Len(stafflist)
           THEN docs' = [docs EXCEPT ![CurDoc].layer = Append(@, C26_Separator)]
           ELSE docs' = docs
        /\ UNCHANGED <<humdrum_string, mei_output, humdrum_output, clef, initial_clef,
                       initial_key, initial_flat_found>> ]_vars

\* a staff without Barline has ended before another staff under the alternate
\* encoding, and its separator is the last element of the current document
C26_Witness ==
  /\ pc = "staff"
  /\ ix_staff > 0
  /\ humdrum
  /\ \A k \in 1..Len(stafflist[ix_staff]) : stafflist[ix_staff][k].type # "bar"
  /\ docs[CurDoc].layer # <<>>
  /\ docs[CurDoc].layer[Len(docs[CurDoc].layer)].attrs = {<<"visible", "false">>}

\* C27: the index of ids[increment_idcounter()] stays inside the pool, whatever was
\* converted earlier in the same process.
C27_PoolSufficient == id_counter < PoolSize

\* C28: a Flat token in a staff that does not begin with a Clef token is never
\* skipped: after it an accidental flat is pending.
C28_LaterFlatIsPending ==
  (AfterSymbol /\ Previous.type = "flat" /\ Staff[1].type # "clef") => flat_found

\* the note element created for the token that has just been processed
C29_Note ==
  ElemAt(CHOOSE a \in Places :
           ElemAt(a).tag = "note" /\ ElemAt(a).src = <<ix_staff, ix_symbol - 1>>)

\* the accidental suffix of a line of the flat encoding
C29_Suffix(line) ==
  IF Contains(line, <<"#">>) /\ Contains(line, <<"-">>) THEN "both"
  ELSE IF Contains(line, <<"#">>) THEN "s"
  ELSE IF Contains(line, <<"-">>) THEN "f"
  ELSE ""

\* C29: with the alternate encoding requested, after a Note token that is not the
\* first note of a ligature, accid of the note element is 's', 'f' or absent
\* exactly as the suffix of the note's line is '#', '-' or none.
C29_AccidentalsAgree ==
  (AfterSymbol /\ humdrum /\ Previous.type \in DOMAIN NOTES_MEI \ {"li"}) =>
    C29_Suffix(humdrum_line[1]) = (IF HasAttr(C29_Note, "accid") THEN Attr(C29_Note, "accid") ELSE "")

\* C30: two calls on the same piece that have ended, whatever their humdrum flags,
\* have both completed or both aborted, and have written as many hierarchical
\* documents.
C30_FlagDoesNotChangeOutcome ==
  \A i, j \in 1..Len(C20_Ended) :
    C20_Ended[i].piece = C20_Ended[j].piece =>
      /\ C20_Ended[i].err = "" <=> C20_Ended[j].err = ""
      /\ Len(C20_Ended[i].mei_names) = Len(C20_Ended[j].mei_names)

====
